---- MODULE Spec2Model ----
(***************************************************************************)
(* Batch acquisition scores (src/resspect/batch_functions.py) and the      *)
(* purity metric (src/resspect/metrics.py) as state machines.              *)
(*                                                                         *)
(* Arrays are sequences (1-based; the source's index j is j + 1 here).     *)
(* A float64 is a record: a finite value is an exact rational n/d, and     *)
(* NaN, -inf, +inf are values of their own.  np.log of a positive value    *)
(* is kept as the logarithm of that rational ("ln") until it meets a       *)
(* finite factor, where it becomes a fixed-point number; rounding of       *)
(* float64 products and sums is not modelled.                              *)
(***************************************************************************)
EXTENDS Integers, Sequences, FiniteSets, TLC

\* ------------------------------------------------------------- bounds
\* Largest number of entries of a tensor probs_N_K_C a call is given.
MaxCells == 6
\* Largest number of entries of a table a call builds: the (M, K) joint
\* table, the (B, M, C) table of the candidates.
MaxTable == 8
\* Largest number of stochastic passes K of a tensor.
MaxK == 2
\* Largest number of classes C of a tensor.
MaxC == 3

\* ------------------------------------------------------------ helpers
Min(a, b) == IF a <= b THEN a ELSE b
Max(a, b) == IF a >= b THEN a ELSE b
Abs(a) == IF a < 0 THEN -a ELSE a

RECURSIVE GCD(_, _)
GCD(a, b) == IF b = 0 THEN a ELSE GCD(b, a % b)

RECURSIVE Pow(_, _)
Pow(b, e) == IF e = 0 THEN 1 ELSE b * Pow(b, e - 1)

Range(s) == {s[j] : j \in DOMAIN s}

\* ------------------------------------------------------------ float64
Fin(n, d) ==
    LET g == GCD(Abs(n), Abs(d))
        s == IF d < 0 THEN -1 ELSE 1
    IN  [k |-> "fin", n |-> (s * n) \div g, d |-> (s * d) \div g]
Zero == Fin(0, 1)
One == Fin(1, 1)
NaN == [k |-> "nan", n |-> 0, d |-> 1]
NegInf == [k |-> "ninf", n |-> 0, d |-> 1]
PosInf == [k |-> "pinf", n |-> 0, d |-> 1]
\* ln(n/d) of a positive rational, exact
Ln(n, d) == LET g == GCD(n, d) IN [k |-> "ln", n |-> n \div g, d |-> d \div g]

IsFinite(x) == x.k \in {"fin", "ln"}
IsZero(x) == x.k = "fin" /\ x.n = 0

\* floor(log2 x) for x >= 1
RECURSIVE FloorLog2(_)
FloorLog2(x) == IF x < 2 THEN 0 ELSE 1 + FloorLog2(x \div 2)

\* The fractional bits of log2 of y / 2^14 in [1, 2), by repeated squaring.
RECURSIVE Log2Frac(_, _)
Log2Frac(y, bits) ==
    IF bits = 0 THEN 0
    ELSE LET z == (y * y) \div (2^14)
         IN  IF z >= 2^15 THEN 2^(bits - 1) + Log2Frac(z \div 2, bits - 1)
             ELSE Log2Frac(z, bits - 1)

\* x / 2^FloorLog2(x), in [1, 2), in units of 2^-14
Mantissa(x) ==
    LET e == FloorLog2(x)
    IN  IF e <= 14 THEN x * (2^(14 - e)) ELSE x \div (2^(e - 14))

\* log2(x) in units of 1/1024, for an integer x >= 1
Log2Fix(x) == FloorLog2(x) * (2^10) + Log2Frac(Mantissa(x), 10)

\* ln(x) in units of 1/1024 nat
LnFix(x) == (Log2Fix(x) * 6931) \div 10000

\* The finite number a value stands for: ln(n/d) as a fixed-point number.
Num(x) == IF x.k = "ln" THEN Fin(LnFix(x.n) - LnFix(x.d), 2^10) ELSE x

Sign(x) ==
    CASE x.k = "pinf" -> 1
      [] x.k = "ninf" -> -1
      [] x.k = "ln" -> IF x.n > x.d THEN 1 ELSE IF x.n < x.d THEN -1 ELSE 0
      [] OTHER -> IF x.n > 0 THEN 1 ELSE IF x.n < 0 THEN -1 ELSE 0

FNeg(x) ==
    CASE x.k = "nan" -> NaN
      [] x.k = "pinf" -> NegInf
      [] x.k = "ninf" -> PosInf
      [] x.k = "ln" -> Ln(x.d, x.n)
      [] OTHER -> Fin(-x.n, x.d)

FMul(x, y) ==
    IF x.k = "nan" \/ y.k = "nan" THEN NaN
    ELSE IF x.k \in {"pinf", "ninf"} \/ y.k \in {"pinf", "ninf"}
    THEN LET s == Sign(x) * Sign(y)
         IN  IF s = 0 THEN NaN ELSE IF s > 0 THEN PosInf ELSE NegInf
    ELSE LET a == Num(x)
             b == Num(y)
         IN  Fin(a.n * b.n, a.d * b.d)

FAdd(x, y) ==
    IF x.k = "nan" \/ y.k = "nan" THEN NaN
    ELSE IF x.k \in {"pinf", "ninf"} /\ y.k \in {"pinf", "ninf"}
    THEN IF x.k = y.k THEN x ELSE NaN
    ELSE IF x.k \in {"pinf", "ninf"} THEN x
    ELSE IF y.k \in {"pinf", "ninf"} THEN y
    ELSE IF x.k = "ln" /\ y.k = "ln" THEN Ln(x.n * y.n, x.d * y.d)
    ELSE LET a == Num(x)
             b == Num(y)
         IN  Fin(a.n * b.d + b.n * a.d, a.d * b.d)

FDiv(x, y) ==
    IF x.k = "nan" \/ y.k = "nan" THEN NaN
    ELSE IF x.k \in {"pinf", "ninf"}
    THEN IF y.k \in {"pinf", "ninf"} THEN NaN
         ELSE IF Sign(y) < 0 THEN FNeg(x) ELSE x
    ELSE IF y.k \in {"pinf", "ninf"} THEN Zero
    ELSE LET a == Num(x)
             b == Num(y)
         IN  IF b.n = 0
             THEN IF a.n = 0 THEN NaN ELSE IF a.n > 0 THEN PosInf ELSE NegInf
             ELSE Fin(a.n * b.d, a.d * b.n)

\* np.log
FLog(x) ==
    LET a == Num(x)
    IN  CASE a.k = "nan" -> NaN
          [] a.k = "pinf" -> PosInf
          [] a.k = "ninf" -> NaN
          [] OTHER -> IF a.n < 0 THEN NaN ELSE IF a.n = 0 THEN NegInf ELSE Ln(a.n, a.d)

\* np.exp, of the values a sum of logarithms takes
FExp(x) ==
    CASE x.k = "nan" -> NaN
      [] x.k = "pinf" -> PosInf
      [] x.k = "ninf" -> Zero
      [] x.k = "ln" -> Fin(x.n, x.d)
      [] x.k = "fin" /\ x.n = 0 -> One

\* np.sum of a sequence of values (0.0 for an empty one)
RECURSIVE FSum(_)
FSum(s) == IF s = <<>> THEN Zero
           ELSE IF Len(s) = 1 THEN s[1]
           ELSE FAdd(FSum(SubSeq(s, 1, Len(s) - 1)), s[Len(s)])


\* ------------------------------------------------------------- arrays
\* An array is a record: base names the buffer whose memory it uses (a view
\* keeps the base of the array it views, a computed array has a buffer of
\* its own) and a holds its entries.
None == [base |-> "None", a |-> <<>>]
Arr(base, a) == [base |-> base, a |-> a]

\* A value that np.empty leaves in a new array.
Uninit == [k |-> "uninit", n |-> 0, d |-> 1]

\* np.ones((M, K))
Ones(M, K) == [m \in 1..M |-> [k \in 1..K |-> One]]
\* np.empty((B, M, C))
Empty3(B, M, C) == [b \in 1..B |-> [m \in 1..M |-> [c \in 1..C |-> Uninit]]]
\* np.zeros((B,))
Zeros(B) == [b \in 1..B |-> Zero]

Rows(t) == Len(t)
Cols(t) == Len(t[1])

\* The sequence f[1], ..., f[n], with its entries computed.
Seq1(f, n) == SubSeq(f, 1, n)

\* t.transpose() of a two-dimensional array with K columns
Transpose(t) ==
    LET M == Rows(t)
        K == Cols(t)
    IN  Seq1([k \in 1..K |-> Seq1([m \in 1..M |-> t[m][k]], M)], K)
\* t[:, :, None]
ExpandLast(t) ==
    LET K == Rows(t)
        M == Cols(t)
    IN  Seq1([k \in 1..K |-> Seq1([m \in 1..M |-> <<t[k][m]>>], M)], K)
\* t.squeeze(2)
Squeeze2(t) ==
    LET K == Rows(t)
        M == Cols(t)
    IN  Seq1([k \in 1..K |-> Seq1([m \in 1..M |-> t[k][m][1]], M)], K)
\* p[:, None, :]
ExpandMid(p) == Seq1([k \in 1..Len(p) |-> <<p[k]>>], Len(p))
\* The product of a (K, M, 1) and a (K, 1, C) array, broadcast to (K, M, C).
BroadcastMul(x_K_M_1, y_K_1_C) ==
    LET K == Len(x_K_M_1)
        M == Len(x_K_M_1[1])
        C == Len(y_K_1_C[1][1])
    IN  Seq1([k \in 1..K |->
            Seq1([m \in 1..M |->
                Seq1([c \in 1..C |-> FMul(x_K_M_1[k][m][1], y_K_1_C[k][1][c])], C)], M)], K)

\* A reshape that runs over the classes first and the rows second.
ReshapeClassMajor(t_K_M_C) ==
    LET K == Len(t_K_M_C)
        M == Len(t_K_M_C[1])
        C == Len(t_K_M_C[1][1])
    IN  Seq1([k \in 1..K |->
            Seq1([r \in 1..(M * C) |->
                <<t_K_M_C[k][((r - 1) % M) + 1][((r - 1) \div M) + 1]>>], M * C)], K)

\* t.reshape((K, -1, 1)) of a (K, M, C) array: row m * C + c, in C order
Reshape_K_M1(t_K_M_C) ==
    LET K == Len(t_K_M_C)
        M == Len(t_K_M_C[1])
        C == Len(t_K_M_C[1][1])
    IN  Seq1([k \in 1..K |->
            Seq1([r \in 1..(M * C) |->
                <<t_K_M_C[k][((r - 1) \div C) + 1][((r - 1) % C) + 1]>>], M * C)], K)

\* np.matmul of an (M, K) and a (K, C) array
MatMul(x_M_K, y_K_C) ==
    LET M == Len(x_M_K)
        K == Len(y_K_C)
        C == Len(y_K_C[1])
    IN  Seq1([m \in 1..M |->
            Seq1([c \in 1..C |->
                FSum(Seq1([k \in 1..K |-> FMul(x_M_K[m][k], y_K_C[k][c])], K))], C)], M)

\* t /= K of a three-dimensional array
DivAll3(t, K) ==
    Seq1([b \in 1..Len(t) |->
        Seq1([m \in 1..Len(t[b]) |->
            Seq1([c \in 1..Len(t[b][m]) |-> FDiv(t[b][m][c], Fin(K, 1))],
                 Len(t[b][m]))], Len(t[b]))], Len(t))

\* The entries of a two-dimensional array in C order.
RECURSIVE Flatten(_)
Flatten(t) == IF t = <<>> THEN <<>> ELSE Head(t) \o Flatten(Tail(t))

\* s[i:j] of Python: 0-based, half-open, cut at the end of s
Slice(s, i, j) == SubSeq(s, i + 1, Min(j, Len(s)))
\* s[i:j] = vals
AssignSlice(s, i, j, vals) ==
    Seq1([x \in 1..Len(s) |-> IF i < x /\ x <= Min(j, Len(s)) THEN vals[x - i] ELSE s[x]],
         Len(s))

\* np.mean(t, axis=1) of an (M, K) array
MeanRows(t_M_K) ==
    Seq1([m \in 1..Len(t_M_K) |-> FDiv(FSum(t_M_K[m]), Fin(Len(t_M_K[m]), 1))],
         Len(t_M_K))

\* ------------------------------------------------- batch_functions.py
compute_conditional_entropies_B(probs_B_K_C) ==
    [b \in 1..probs_B_K_C.N |->
        FDiv(FSum(Flatten([k \in 1..probs_B_K_C.K |->
                 [c \in 1..probs_B_K_C.C |->
                     FMul(FMul(Fin(-1, 1), probs_B_K_C.a[b][k][c]),
                          FLog(probs_B_K_C.a[b][k][c]))]])),
             Fin(probs_B_K_C.K, 1))]

entropy_from_M_K(joint_probs_M_K) ==
    LET probs_M == MeanRows(joint_probs_M_K)
        nats_M == [m \in 1..Len(probs_M) |-> FMul(FNeg(FLog(probs_M[m])), probs_M[m])]
    IN  FSum(nats_M)

entropy_from_probs_b_M_C(probs_b_M_C) ==
    Seq1([b \in 1..Len(probs_b_M_C) |->
            LET p == Flatten(probs_b_M_C[b])
            IN  FSum(Seq1([j \in 1..Len(p) |-> FMul(FNeg(p[j]), FLog(p[j]))], Len(p)))],
         Len(probs_b_M_C))

importance_weighted_entropy_p_b_M_C(p_b_M_C, q_1_M_1, M) ==
    Seq1([b \in 1..Len(p_b_M_C) |->
            FDiv(FSum(Flatten([m \in 1..Len(p_b_M_C[b]) |->
                     [c \in 1..Len(p_b_M_C[b][m]) |->
                         FDiv(FMul(FNeg(FLog(p_b_M_C[b][m][c])), p_b_M_C[b][m][c]),
                              q_1_M_1[1][m][1])]])),
                 Fin(M, 1))],
         Len(p_b_M_C))

\* joint_probs_M_K_impl, lines 18-20: one item folded into the table
FoldItem(prev_joint_probs_K_M_1, item_K_C) ==
    LET i_K_1_C == ExpandMid(item_K_C)
        joint_probs_K_M_C == BroadcastMul(prev_joint_probs_K_M_1, i_K_1_C)
    IN  Reshape_K_M1(joint_probs_K_M_C)

\* joint_probs_M_K_impl, lines 13-23, on the entries alone
joint_probs_M_K_impl(probs_N_K_C, prev_joint_probs_M_K) ==
    LET RECURSIVE Loop(_, _)
        Loop(prev_joint_probs_K_M_1, i) ==
            IF i = probs_N_K_C.N THEN prev_joint_probs_K_M_1
            ELSE Loop(FoldItem(prev_joint_probs_K_M_1, probs_N_K_C.a[i + 1]), i + 1)
    IN  Transpose(Squeeze2(Loop(ExpandLast(Transpose(prev_joint_probs_M_K)), 0)))

\* joint_probs_M_K, lines 30-33, with no prior given
joint_probs_M_K(probs_N_K_C) ==
    joint_probs_M_K_impl(probs_N_K_C, Ones(1, probs_N_K_C.K))

\* The same with the division by K left out.
JointProbsNoDivide(probs_B_K_C, prev_joint_probs_M_K) ==
    Seq1([b \in 1..probs_B_K_C.N |-> MatMul(prev_joint_probs_M_K, probs_B_K_C.a[b])],
         probs_B_K_C.N)

\* lines 68-77: np.empty, the matmul of every candidate into its row, /= K
entropy_joint_probs_B_M_C(probs_B_K_C, prev_joint_probs_M_K) ==
    LET B == probs_B_K_C.N
        K == probs_B_K_C.K
        C == probs_B_K_C.C
        M == Rows(prev_joint_probs_M_K)
        joint_probs_B_M_C == Empty3(B, M, C)
        \* for i in range(B): row i is written by the matmul, out=joint_probs_B_M_C[i]
        Filled == Seq1([b \in 1..B |->
                          IF b - 1 \in 0..(B - 1)
                          THEN MatMul(prev_joint_probs_M_K, probs_B_K_C.a[b])
                          ELSE joint_probs_B_M_C[b]], B)
    IN  DivAll3(Filled, K)

\* The pass counts taken to agree whatever they are.
ShapeCheckSkipped(prev_M_K, probs_N_K_C) == TRUE
\* The assertion of lines 11, 28, 48 and 141: the pass counts agree.
ShapesAgree(prev_M_K, probs_N_K_C) == Cols(prev_M_K) = probs_N_K_C.K

\* chunk_size = 256, lines 60 and 160
chunk_size == 256
\* The end of a chunk taken as its last index.
EndInclusive(i, chunk) == i + chunk - 1
\* end_i = i + chunk_size
end_i(i, chunk) == i + chunk

\* ------------------------------------------------------------- inputs
\* The class distributions a stochastic pass may give over C classes:
\* certainty of one class (probability 1, the others exactly 0), and one
\* with every class possible, tilted to class 0: (2, 1, ..., 1) / (C + 1).
OneHot(C, j) == [c \in 1..C |-> IF c = j THEN One ELSE Zero]
Tilted(C) == [c \in 1..C |-> IF c = 1 THEN Fin(2, C + 1) ELSE Fin(1, C + 1)]
Palette(C) == {OneHot(C, j) : j \in 1..C} \cup {Tilted(C)}

\* The shapes (N, K, C) of a tensor of at most MaxCells entries, of two
\* classes or more.
Shapes ==
    {sh \in (0..MaxCells) \X (1..MaxK) \X (2..MaxC) :
        sh[2] * sh[3] <= MaxCells /\ sh[1] * sh[2] * sh[3] <= MaxCells}
Tensors(sh) ==
    {[N |-> sh[1], K |-> sh[2], C |-> sh[3], a |-> a] :
        a \in [1..sh[1] -> [1..sh[2] -> Palette(sh[3])]]}
AllTensors == UNION {Tensors(sh) : sh \in Shapes}

\* -------------------------------------------------------------- state
VARIABLES
    acc,      \* the caller's accumulator: None or an (M, K) table
    chosen,   \* the items the caller has folded into acc, in order
    fn,       \* the function being executed, "idle" between calls
    pc,       \* the line the call has reached
    args,     \* the arrays the caller passed
    loc,      \* the local variables of the call
    ret,      \* what the call returned or raised
    allocs,   \* the arrays the call has allocated or computed so far
    written,  \* the buffers the call has written in place
    rng       \* the state of the process-wide generator np.random

vars == <<acc, chosen, fn, pc, args, loc, ret, allocs, written, rng>>

NoRet == [k |-> "none", v |-> None]
AssertionError == [k |-> "AssertionError", v |-> None]
Value(arr) == [k |-> "value", v |-> arr]
NoArgs == [probs |-> None, prev |-> None]
NoLoc == [i |-> 0]

Idle ==
    /\ fn = "idle"
    /\ pc = "idle"

\* The caller passes its accumulator as prev_joint_probs_M_K / samples_M_K.
Passed == IF acc = None THEN None ELSE Arr("prior", acc.a)

Enter(f, line, probs) ==
    /\ Idle
    /\ fn' = f
    /\ pc' = line
    /\ args' = [probs |-> probs, prev |-> Passed]
    /\ ret' = NoRet
    /\ allocs' = 0
    /\ written' = {}
    /\ UNCHANGED <<acc, chosen, rng>>

Raise(exc) ==
    /\ pc' = "raised"
    /\ ret' = exc
    /\ loc' = NoLoc
    /\ UNCHANGED <<acc, chosen, fn, args, allocs, written, rng>>

\* The rows the table of a call takes: M for the prior, times C per item.
PriorRows == IF acc = None THEN 1 ELSE Rows(acc.a)

\* ----------------------------------------------------- joint_probs_M_K
CallJoint ==
    \E t \in AllTensors :
        /\ PriorRows * Pow(t.C, t.N) * t.K <= MaxTable
        /\ Enter("joint_probs_M_K", "L27", Arr("probs", t))
        /\ loc' = [prev_joint_probs_M_K |-> Passed]

\* lines 27-33
JointCheck ==
    /\ fn = "joint_probs_M_K" /\ pc = "L27"
    /\ IF loc.prev_joint_probs_M_K # None
          /\ ~ShapesAgree(loc.prev_joint_probs_M_K.a, args.probs.a)
       THEN Raise(AssertionError)
       ELSE /\ pc' = "L11"
            /\ IF loc.prev_joint_probs_M_K = None
               THEN /\ loc' = [prev_joint_probs_M_K |-> Arr("new", Ones(1, args.probs.a.K))]
                    /\ allocs' = allocs + 1
               ELSE UNCHANGED <<loc, allocs>>
            /\ UNCHANGED <<acc, chosen, fn, args, ret, written, rng>>

\* joint_probs_M_K_impl, lines 11-14
ImplEnter ==
    /\ fn = "joint_probs_M_K" /\ pc = "L11"
    /\ IF ~ShapesAgree(loc.prev_joint_probs_M_K.a, args.probs.a)
       THEN Raise(AssertionError)
       ELSE /\ pc' = "L17"
            /\ loc' = [prev_joint_probs_M_K |-> loc.prev_joint_probs_M_K,
                       prev_joint_probs_K_M_1 |->
                           Arr(loc.prev_joint_probs_M_K.base,
                               ExpandLast(Transpose(loc.prev_joint_probs_M_K.a))),
                       i |-> 0]
            /\ UNCHANGED <<acc, chosen, fn, args, ret, allocs, written, rng>>

\* joint_probs_M_K_impl, lines 17-20: one iteration
ImplLoop ==
    /\ fn = "joint_probs_M_K" /\ pc = "L17"
    /\ loc.i < args.probs.a.N
    /\ loc' = [loc EXCEPT !.prev_joint_probs_K_M_1 =
                              Arr("new", FoldItem(loc.prev_joint_probs_K_M_1.a,
                                                  args.probs.a.a[loc.i + 1])),
                          !.i = loc.i + 1]
    /\ allocs' = allocs + 1
    /\ UNCHANGED <<acc, chosen, fn, pc, args, ret, written, rng>>

\* joint_probs_M_K_impl, lines 22-23
ImplReturn ==
    /\ fn = "joint_probs_M_K" /\ pc = "L17"
    /\ loc.i = args.probs.a.N
    /\ pc' = "done"
    /\ ret' = Value(Arr(loc.prev_joint_probs_K_M_1.base,
                        Transpose(Squeeze2(loc.prev_joint_probs_K_M_1.a))))
    /\ UNCHANGED <<acc, chosen, fn, args, loc, allocs, written, rng>>

\* ---------------------------------------------------------- exact_batch
CallExact ==
    \E t \in AllTensors :
        /\ t.N * PriorRows * t.C <= MaxTable
        /\ Enter("exact_batch", "L47", Arr("probs", t))
        /\ loc' = [prev_joint_probs_M_K |-> Passed]

\* lines 47-53
ExactCheck ==
    /\ fn = "exact_batch" /\ pc = "L47"
    /\ IF loc.prev_joint_probs_M_K # None
          /\ ~ShapesAgree(loc.prev_joint_probs_M_K.a, args.probs.a)
       THEN Raise(AssertionError)
       ELSE /\ pc' = "L55"
            /\ IF loc.prev_joint_probs_M_K = None
               THEN /\ loc' = [prev_joint_probs_M_K |-> Arr("new", Ones(1, args.probs.a.K))]
                    /\ allocs' = allocs + 1
               ELSE UNCHANGED <<loc, allocs>>
            /\ UNCHANGED <<acc, chosen, fn, args, ret, written, rng>>

\* line 55, entropy_joint_probs_B_M_C (lines 68-77), and lines 58-60
JointProbs ==
    /\ fn = "exact_batch" /\ pc = "L55"
    /\ pc' = "L61"
    /\ loc' = [joint_probs_B_M_C |->
                   Arr("new", entropy_joint_probs_B_M_C(args.probs.a,
                                                        loc.prev_joint_probs_M_K.a)),
               entropy_B |-> Arr("new", Zeros(args.probs.a.N)),
               assigned |-> [b \in 1..args.probs.a.N |-> 0],
               i |-> 0]
    /\ written' = written \cup {"new"}
    /\ allocs' = allocs + 2
    /\ UNCHANGED <<acc, chosen, fn, args, ret, rng>>

\* lines 61-63: one chunk
ExactChunk ==
    /\ fn = "exact_batch" /\ pc = "L61"
    /\ loc.i < args.probs.a.N
    /\ LET e == end_i(loc.i, chunk_size)
       IN  loc' = [loc EXCEPT
                      !.entropy_B.a =
                          AssignSlice(loc.entropy_B.a, loc.i, e,
                              entropy_from_probs_b_M_C(
                                  Slice(loc.joint_probs_B_M_C.a, loc.i, e))),
                      !.assigned =
                          [b \in 1..args.probs.a.N |->
                              IF loc.i < b /\ b <= e
                              THEN loc.assigned[b] + 1 ELSE loc.assigned[b]],
                      !.i = loc.i + chunk_size]
    /\ written' = written \cup {loc.entropy_B.base}
    /\ UNCHANGED <<acc, chosen, fn, pc, args, ret, allocs, rng>>

\* line 65
ExactReturn ==
    /\ fn = "exact_batch" /\ pc = "L61"
    /\ loc.i >= args.probs.a.N
    /\ pc' = "done"
    /\ ret' = Value(loc.entropy_B)
    /\ UNCHANGED <<acc, chosen, fn, args, loc, allocs, written, rng>>

\* --------------------------------------------------------- batch_sample
CallBatchSample ==
    \E t \in AllTensors :
        /\ acc # None
        /\ t.N * PriorRows * t.C <= MaxTable
        /\ Enter("batch_sample", "L139", Arr("probs", t))
        /\ loc' = [samples_M_K |-> Passed]

\* lines 139-141
SampleCheck ==
    /\ fn = "batch_sample" /\ pc = "L139"
    /\ IF ~ShapesAgree(loc.samples_M_K.a, args.probs.a)
       THEN Raise(AssertionError)
       ELSE /\ pc' = "L143"
            /\ UNCHANGED <<acc, chosen, fn, args, loc, ret, allocs, written, rng>>

\* lines 143-160: p_B_M_C as entropy_joint_probs_B_M_C builds it, q_1_M_1
SampleProbs ==
    /\ fn = "batch_sample" /\ pc = "L143"
    /\ pc' = "L161"
    /\ loc' = [samples_M_K |-> loc.samples_M_K,
               p_B_M_C |-> Arr("new", entropy_joint_probs_B_M_C(args.probs.a,
                                                                 loc.samples_M_K.a)),
               q_1_M_1 |-> Arr("new", <<ExpandLast(<<MeanRows(loc.samples_M_K.a)>>)[1]>>),
               entropy_B |-> Arr("new", Zeros(args.probs.a.N)),
               assigned |-> [b \in 1..args.probs.a.N |-> 0],
               i |-> 0]
    /\ written' = written \cup {"new"}
    /\ allocs' = allocs + 3
    /\ UNCHANGED <<acc, chosen, fn, args, ret, rng>>

\* lines 161-163: one chunk
SampleChunk ==
    /\ fn = "batch_sample" /\ pc = "L161"
    /\ loc.i < args.probs.a.N
    /\ LET e == end_i(loc.i, chunk_size)
       IN  loc' = [loc EXCEPT
                      !.entropy_B.a =
                          AssignSlice(loc.entropy_B.a, loc.i, e,
                              importance_weighted_entropy_p_b_M_C(
                                  Slice(loc.p_B_M_C.a, loc.i, e), loc.q_1_M_1.a,
                                  Rows(loc.samples_M_K.a))),
                      !.assigned =
                          [b \in 1..args.probs.a.N |->
                              IF loc.i < b /\ b <= e
                              THEN loc.assigned[b] + 1 ELSE loc.assigned[b]],
                      !.i = loc.i + chunk_size]
    /\ written' = written \cup {loc.entropy_B.base}
    /\ UNCHANGED <<acc, chosen, fn, pc, args, ret, allocs, rng>>

\* line 165
SampleReturn ==
    /\ fn = "batch_sample" /\ pc = "L161"
    /\ loc.i >= args.probs.a.N
    /\ pc' = "done"
    /\ ret' = Value(loc.entropy_B)
    /\ UNCHANGED <<acc, chosen, fn, args, loc, allocs, written, rng>>

\* ------------------------------------- compute_conditional_entropies_B
\* The baseline score is taken before the caller starts a subset.
CallConditional ==
    \E t \in AllTensors :
        /\ acc = None
        /\ Enter("compute_conditional_entropies_B", "L5", Arr("probs", t))
        /\ loc' = NoLoc

\* lines 5-6
ConditionalReturn ==
    /\ fn = "compute_conditional_entropies_B" /\ pc = "L5"
    /\ pc' = "done"
    /\ ret' = Value(Arr("new", compute_conditional_entropies_B(args.probs.a)))
    /\ allocs' = allocs + 1
    /\ UNCHANGED <<acc, chosen, fn, args, loc, written, rng>>

\* The caller takes what the call returned or raised.
Return ==
    /\ pc \in {"done", "raised"}
    /\ fn' = "idle"
    /\ pc' = "idle"
    /\ args' = NoArgs
    /\ loc' = NoLoc
    /\ ret' = NoRet
    /\ allocs' = 0
    /\ written' = {}
    /\ UNCHANGED <<acc, chosen, rng>>

\* The caller keeps the table joint_probs_M_K returned as its accumulator.
Adopt ==
    /\ fn = "joint_probs_M_K" /\ pc = "done"
    /\ fn' = "idle"
    /\ pc' = "idle"
    /\ args' = NoArgs
    /\ loc' = NoLoc
    /\ ret' = NoRet
    /\ allocs' = 0
    /\ written' = {}
    /\ acc' = Arr("acc", ret.v.a)
    /\ chosen' = chosen \o args.probs.a.a
    /\ UNCHANGED rng

\* The caller starts a new subset.
Reset ==
    /\ Idle
    /\ acc # None
    /\ acc' = None
    /\ chosen' = <<>>
    /\ UNCHANGED <<fn, pc, args, loc, ret, allocs, written, rng>>

Init ==
    /\ acc = None
    /\ chosen = <<>>
    /\ fn = "idle"
    /\ pc = "idle"
    /\ args = NoArgs
    /\ loc = NoLoc
    /\ ret = NoRet
    /\ allocs = 0
    /\ written = {}
    /\ rng = 0

Next ==
    \/ CallJoint \/ JointCheck \/ ImplEnter \/ ImplLoop \/ ImplReturn
    \/ CallExact \/ ExactCheck \/ JointProbs \/ ExactChunk \/ ExactReturn
    \/ CallBatchSample \/ SampleCheck \/ SampleProbs \/ SampleChunk \/ SampleReturn
    \/ CallConditional \/ ConditionalReturn
    \/ Return \/ Adopt \/ Reset

Spec == Init /\ [][Next]_vars

\* ------------------------------------------------- claims, exact path
\* The table a call of joint_probs_M_K starts from: the prior passed, or
\* the (1, K) table of ones.
PriorOf == IF args.prev = None THEN Ones(1, args.probs.a.K) ELSE args.prev.a

\* prior[m, k] * probs[1, k, c_1] * ... * probs[N, k, c_N] for the row
\* r = ((m * C + c_1) * C + ...) * C + c_N (0-based), multiplied in order.
ExpectedEntry(prior, t, r, k) ==
    LET RECURSIVE Upto(_)
        Upto(j) ==
            IF j = 0 THEN prior[(r \div Pow(t.C, t.N)) + 1][k]
            ELSE FMul(Upto(j - 1), t.a[j][k][((r \div Pow(t.C, t.N - j)) % t.C) + 1])
    IN  Upto(t.N)

\* C1: joint_probs_M_K folding N items into a prior of M rows returns M * C^N
\* rows of K columns, the entry of row ((m*C + c_1)*C + ...)*C + c_N and
\* column k being prior[m,k] * probs[1,k,c_1] * ... * probs[N,k,c_N]; for
\* N = 0 the result is the prior.
C1_FoldClosedForm ==
    (fn = "joint_probs_M_K" /\ pc = "done") =>
        LET t == args.probs.a
            out == ret.v.a
        IN  /\ ret.k = "value"
            /\ Rows(out) = Rows(PriorOf) * Pow(t.C, t.N)
            /\ \A r \in 1..Rows(out) :
                  /\ Len(out[r]) = t.K
                  /\ \A k \in 1..t.K : out[r][k] = ExpectedEntry(PriorOf, t, r - 1, k)
            /\ (t.N = 0 => out = PriorOf)

\* Two items folded into a prior of two rows, with an entry strictly
\* between 0 and 1 in the result.
C1_Witness ==
    /\ fn = "joint_probs_M_K" /\ pc = "done"
    /\ args.probs.a.N = 2
    /\ args.prev # None
    /\ Rows(args.prev.a) = 2
    /\ \E r \in 1..Rows(ret.v.a) : ret.v.a[r][1].n > 0 /\ ret.v.a[r][1].n < ret.v.a[r][1].d

HasZero(t) == \E b \in 1..t.N : \E k \in 1..t.K : \E c \in 1..t.C : IsZero(t.a[b][k][c])

\* C2: for valid probabilities with an entry exactly 0,
\* compute_conditional_entropies_B and exact_batch return a finite value for
\* every candidate.
C2_ZeroGivesFiniteEntropy ==
    (/\ fn \in {"compute_conditional_entropies_B", "exact_batch"}
     /\ pc = "done"
     /\ HasZero(args.probs.a)) =>
        \A b \in 1..args.probs.a.N : IsFinite(ret.v.a[b])

ChecksShape == {"joint_probs_M_K", "exact_batch", "batch_sample"}
EntryLine == [f \in ChecksShape |->
                 CASE f = "joint_probs_M_K" -> "L27"
                   [] f = "exact_batch" -> "L47"
                   [] f = "batch_sample" -> "L139"]
Mismatch == args.prev # None /\ Cols(args.prev.a) # args.probs.a.K

\* C4: when the pass count K of the prior/sample table differs from the
\* candidate tensor's, joint_probs_M_K, exact_batch and batch_sample raise on
\* entry: no array has been allocated, no product computed, nothing written,
\* and no result is returned.
C4_MismatchRaisesOnEntry ==
    (fn \in ChecksShape /\ Mismatch) =>
        /\ allocs = 0
        /\ written = {}
        /\ \/ pc = EntryLine[fn]
           \/ /\ pc = "raised"
              /\ ret = AssertionError
              /\ loc = NoLoc

\* batch_sample has raised on a sample table with another pass count.
C4_Witness ==
    /\ fn = "batch_sample"
    /\ pc = "raised"
    /\ Mismatch
    /\ Rows(args.prev.a) > 1
    /\ args.probs.a.N > 0

\* The tensor of the items the caller folded, followed by candidate b.
ChosenAnd(b) ==
    [N |-> Len(chosen) + 1, K |-> args.probs.a.K, C |-> args.probs.a.C,
     a |-> chosen \o <<args.probs.a.a[b]>>]

\* C5: the (M, C) distribution exact_batch builds for candidate b against the
\* prior folded from the chosen items is, entry for entry and in order, the
\* average over K of the table joint_probs_M_K folds from the chosen items and
\* b together, and the score of b is entropy_from_M_K of that table.
C5_ExactBatchScoresTheFold ==
    (fn = "exact_batch" /\ pc = "done") =>
        \A b \in 1..args.probs.a.N :
            /\ Flatten(loc.joint_probs_B_M_C.a[b]) = MeanRows(joint_probs_M_K(ChosenAnd(b)))
            /\ ret.v.a[b] = entropy_from_M_K(joint_probs_M_K(ChosenAnd(b)))

\* A candidate of two passes scored against two chosen items, with a
\* finite, positive score.
C5_Witness ==
    /\ fn = "exact_batch" /\ pc = "done"
    /\ Len(chosen) = 2
    /\ args.probs.a.K = 2
    /\ args.probs.a.N >= 1
    /\ ret.v.a[1].k = "fin" /\ ret.v.a[1].n > 0

\* C8: a call of joint_probs_M_K, exact_batch or batch_sample writes neither
\* the table nor the tensor it was passed, and the table joint_probs_M_K
\* returns does not use the memory of the table passed in.
C8_InputsKeptResultNew ==
    (fn \in ChecksShape /\ pc = "done") =>
        /\ written \cap {"prior", "probs"} = {}
        /\ (fn = "joint_probs_M_K" => ret.v.base \notin {"prior", "probs"})

\* ============================================================ sampling
\* The draws a call of sample_M_K or fast_multi_choices takes per vector.
MaxS == 2
\* np.random.rand gives multiples of 1 / RandGrid in [0, 1).
RandGrid == 12

\* The generator is process-wide state: a draw is a function of the state
\* it is taken in, and taking it moves the state on.
NextRng(x) == (5 * x + 1) % RandGrid
RECURSIVE RngAfter(_, _)
RngAfter(x, n) == IF n = 0 THEN x ELSE RngAfter(NextRng(x), n - 1)
\* np.random.rand(n) in generator state x
rand(x, n) == Seq1([j \in 1..n |-> Fin(RngAfter(x, j - 1), RandGrid)], n)

\* x <= y and x < y, of finite values
FLess(x, y) == x.n * y.d < y.n * x.d
FLeq(x, y) == x.n * y.d <= y.n * x.d

\* cumsum(axis=1) of one row
CumSum(v) == Seq1([c \in 1..Len(v) |-> FSum(SubSeq(v, 1, c))], Len(v))
\* The row left as the sum made it.
NoClip(s) == s
\* s[:, -1] = 1.
ClipLast(s) == [s EXCEPT ![Len(s)] = One]

\* probs_b_C.reshape((-1, C)) of a (N, K, C) tensor
Reshape_B_C(t) ==
    Seq1([j \in 1..(t.N * t.K) |-> t.a[((j - 1) \div t.K) + 1][((j - 1) % t.K) + 1]],
         t.N * t.K)

\* fast_multi_choices on the tensor t with the draws r: the (N, K, M) array
\* of class indices, 0-based
fast_multi_choices(t, M, r) ==
    LET probs_B_C == Reshape_B_C(t)
        B == Len(probs_B_C)
        s == Seq1([j \in 1..(B * M) |->
                      ClipLast(CumSum(probs_B_C[((j - 1) \div M) + 1]))], B * M)
        choices == Seq1([j \in 1..(B * M) |->
                      Cardinality({c \in 1..t.C : FLeq(s[j][c], r[j])})], B * M)
    IN  Seq1([n \in 1..t.N |->
            Seq1([k \in 1..t.K |->
                Seq1([m \in 1..M |-> choices[((n - 1) * t.K + (k - 1)) * M + m]], M)],
                t.K)], t.N)

\* choices_N_K_S[:, None, :, :]
ExpandChoices(c_N_K_S) == Seq1([n \in 1..Len(c_N_K_S) |-> <<c_N_K_S[n]>>], Len(c_N_K_S))
\* probs_N_K_C[:, :, None, :]
ExpandProbs(p_N_K_C) ==
    Seq1([n \in 1..Len(p_N_K_C) |->
        Seq1([k \in 1..Len(p_N_K_C[n]) |-> <<p_N_K_C[n][k]>>], Len(p_N_K_C[n]))],
        Len(p_N_K_C))

\* data.repeat(n, axis=2)
Repeat2(data, n) ==
    Seq1([i \in 1..Len(data) |->
        Seq1([a \in 1..Len(data[i]) |->
            Seq1([b \in 1..(Len(data[i][a]) * n) |-> data[i][a][((b - 1) \div n) + 1]],
                 Len(data[i][a]) * n)], Len(data[i]))], Len(data))
\* index.repeat(n, axis=1)
Repeat1(index, n) ==
    Seq1([i \in 1..Len(index) |->
        Seq1([a \in 1..(Len(index[i]) * n) |-> index[i][((a - 1) \div n) + 1]],
             Len(index[i]) * n)], Len(index))
\* np.take_along_axis(data, index, axis=-1)
take_along_axis(data, index) ==
    Seq1([i \in 1..Len(index) |->
        Seq1([a \in 1..Len(index[i]) |->
            Seq1([b \in 1..Len(index[i][a]) |->
                Seq1([s \in 1..Len(index[i][a][b]) |->
                        data[i][a][b][index[i][a][b][s] + 1]],
                     Len(index[i][a][b]))], Len(index[i][a]))], Len(index[i]))],
        Len(index))

\* take_expand(data, index, dim=-1), the shapes of the two arrays given
take_expand(data, data_shape, index, index_shape) ==
    LET max_shape == [j \in 1..4 |-> Max(data_shape[j], index_shape[j])]
        new_data_shape == [max_shape EXCEPT ![4] = data_shape[4]]
        new_index_shape == [max_shape EXCEPT ![4] = index_shape[4]]
    IN  take_along_axis(Repeat2(data, new_data_shape[3]),
                        Repeat1(index, new_index_shape[2]))

\* np.exp(np.sum(np.log(probs_N_K_K_S), axis=0)) of a (N, K, K, S) array
exp_sum_log(p_N_K_K_S, K, S) ==
    Seq1([k1 \in 1..K |->
        Seq1([k2 \in 1..K |->
            Seq1([s \in 1..S |->
                FExp(FSum([n \in 1..Len(p_N_K_K_S) |-> FLog(p_N_K_K_S[n][k1][k2][s])]))],
                S)], K)], K)

\* The (K, K * S) array whose columns run over the draws first.
ReshapeDrawMajor(p_K_K_S, K, S) ==
    Seq1([k1 \in 1..K |->
        Seq1([m \in 1..(K * S) |-> p_K_K_S[k1][((m - 1) % K) + 1][((m - 1) \div K) + 1]],
             K * S)], K)
\* probs_K_K_S.reshape((K, -1))
Reshape_K_KS(p_K_K_S, K, S) ==
    Seq1([k1 \in 1..K |->
        Seq1([m \in 1..(K * S) |-> p_K_K_S[k1][((m - 1) \div S) + 1][((m - 1) % S) + 1]],
             K * S)], K)

\* Probability vectors as floating point leaves them: one entry off by one
\* grid step, every entry still in [0, 1].
Eps == Fin(1, RandGrid)
InUnit(x) == x.n >= 0 /\ x.n <= x.d
Drifted(C) ==
    {w \in {[v EXCEPT ![j] = FAdd(v[j], e)] :
                v \in Palette(C), j \in 1..C, e \in {Eps, FNeg(Eps)}} :
        \A c \in 1..C : InUnit(w[c])}
\* Half on the first class, half on the last, exactly 0 between.
Split(C) == [c \in 1..C |-> IF c = 1 \/ c = C THEN Fin(1, 2) ELSE Zero]
Vectors(C) == Palette(C) \cup {Split(C)} \cup Drifted(C)
\* The (1, 1, C) tensors fast_multi_choices is called on directly.
VectorTensors ==
    UNION {{[N |-> 1, K |-> 1, C |-> C, a |-> <<<<v>>>>] : v \in Vectors(C)} : C \in 2..MaxC}

\* ----------------------------------------------------- fast_multi_choices
CallFastMultiChoices ==
    \E t \in VectorTensors : \E M \in 1..MaxS :
        /\ Enter("fast_multi_choices", "L126", Arr("probs", t))
        /\ loc' = [S |-> M]

\* lines 126-133
FastMultiChoicesReturn ==
    /\ fn = "fast_multi_choices" /\ pc = "L126"
    /\ LET t == args.probs.a
           r == rand(rng, t.N * t.K * loc.S)
       IN  /\ loc' = [S |-> loc.S, r |-> r]
           /\ ret' = Value(Arr("new", fast_multi_choices(t, loc.S, r)))
           /\ rng' = RngAfter(rng, t.N * t.K * loc.S)
    /\ pc' = "done"
    /\ allocs' = allocs + 1
    /\ UNCHANGED <<acc, chosen, fn, args, written>>

\* ------------------------------------------------------------ sample_M_K
CallSampleMK ==
    \E t \in AllTensors : \E S \in 1..MaxS :
        /\ Enter("sample_M_K", "L89", Arr("probs", t))
        /\ loc' = [S |-> S]

\* lines 89-91, fast_multi_choices (lines 126-133)
Choose ==
    /\ fn = "sample_M_K" /\ pc = "L89"
    /\ LET t == args.probs.a
           r == rand(rng, t.N * t.K * loc.S)
       IN  /\ loc' = [S |-> loc.S, r |-> r,
                      choices_N_K_S |-> Arr("new", fast_multi_choices(t, loc.S, r))]
           /\ rng' = RngAfter(rng, t.N * t.K * loc.S)
    /\ pc' = "L93"
    /\ allocs' = allocs + 1
    /\ UNCHANGED <<acc, chosen, fn, args, ret, written>>

\* lines 93-96, take_expand (lines 111-123)
TakeExpand ==
    /\ fn = "sample_M_K" /\ pc = "L93"
    /\ LET t == args.probs.a
       IN  loc' = [S |-> loc.S, r |-> loc.r, choices_N_K_S |-> loc.choices_N_K_S,
                   probs_N_K_K_S |->
                       Arr("new", take_expand(ExpandProbs(t.a), <<t.N, t.K, 1, t.C>>,
                                              ExpandChoices(loc.choices_N_K_S.a),
                                              <<t.N, 1, t.K, loc.S>>))]
    /\ pc' = "L98"
    /\ allocs' = allocs + 1
    /\ UNCHANGED <<acc, chosen, fn, args, ret, written, rng>>

\* line 98
ExpSumLog ==
    /\ fn = "sample_M_K" /\ pc = "L98"
    /\ loc' = [S |-> loc.S, r |-> loc.r, choices_N_K_S |-> loc.choices_N_K_S,
               probs_N_K_K_S |-> loc.probs_N_K_K_S,
               probs_K_K_S |-> Arr("new", exp_sum_log(loc.probs_N_K_K_S.a,
                                                     args.probs.a.K, loc.S))]
    /\ pc' = "L99"
    /\ allocs' = allocs + 1
    /\ UNCHANGED <<acc, chosen, fn, args, ret, written, rng>>

\* lines 99-102
SampleMKReturn ==
    /\ fn = "sample_M_K" /\ pc = "L99"
    /\ pc' = "done"
    /\ ret' = Value(Arr(loc.probs_K_K_S.base,
                        Transpose(Reshape_K_KS(loc.probs_K_K_S.a, args.probs.a.K, loc.S))))
    /\ UNCHANGED <<acc, chosen, fn, args, loc, allocs, written, rng>>

\* The generator may be in any state when the caller begins.
InitSample ==
    /\ acc = None
    /\ chosen = <<>>
    /\ fn = "idle"
    /\ pc = "idle"
    /\ args = NoArgs
    /\ loc = NoLoc
    /\ ret = NoRet
    /\ allocs = 0
    /\ written = {}
    /\ rng \in 0..(RandGrid - 1)

NextSample ==
    \/ CallFastMultiChoices \/ FastMultiChoicesReturn
    \/ CallSampleMK \/ Choose \/ TakeExpand \/ ExpSumLog \/ SampleMKReturn
    \/ Return

SpecSample == InitSample /\ [][NextSample]_vars

\* ---------------------------------------------------- claims, sampling
\* probs[1, k1, c_1] * ... * probs[N, k1, c_N], c_n the class drawn for item
\* n from pass k2 in draw s.
DrawProduct(t, choices_N_K_S, k1, k2, s) ==
    LET RECURSIVE Upto(_)
        Upto(j) ==
            IF j = 0 THEN One
            ELSE FMul(Upto(j - 1), t.a[j][k1][choices_N_K_S[j][k2][s] + 1])
    IN  Upto(t.N)

\* C3 as stated: sample_M_K with S draws returns S rows of K columns, the
\* entry of draw s and pass k being the product over the items of the
\* probability pass k gives the class drawn for the item in draw s.
C3_OneRowPerDraw ==
    (fn = "sample_M_K" /\ pc = "done") =>
        LET t == args.probs.a
            out == ret.v.a
        IN  /\ Rows(out) = loc.S
            /\ \A s \in 1..loc.S : \A k \in 1..t.K :
                  /\ Len(out[s]) = t.K
                  /\ out[s][k] = DrawProduct(t, loc.choices_N_K_S.a, k, k, s)

\* C3, amended: sample_M_K with S draws returns K * S rows of K columns, one
\* row per pass k2 and draw s, at row k2 * S + s (0-based); its entry in
\* column k1 is the product over the items of the probability pass k1 gives
\* the class drawn for the item from pass k2 in draw s.
C3_OneRowPerPassAndDraw ==
    (fn = "sample_M_K" /\ pc = "done") =>
        LET t == args.probs.a
            out == ret.v.a
        IN  /\ ret.k = "value"
            /\ Rows(out) = t.K * loc.S
            /\ \A k2 \in 1..t.K : \A s \in 1..loc.S : \A k1 \in 1..t.K :
                  /\ Len(out[(k2 - 1) * loc.S + s]) = t.K
                  /\ out[(k2 - 1) * loc.S + s][k1]
                         = DrawProduct(t, loc.choices_N_K_S.a, k1, k2, s)

\* Two passes that drew different classes in the second draw, and a table
\* of four rows with an entry strictly between 0 and 1.
C3_Witness ==
    /\ fn = "sample_M_K" /\ pc = "done"
    /\ args.probs.a.N = 1
    /\ args.probs.a.K = 2
    /\ loc.S = 2
    /\ loc.choices_N_K_S.a[1][1][2] # loc.choices_N_K_S.a[1][2][2]
    /\ \E r \in 1..Rows(ret.v.a) : ret.v.a[r][1].n > 0 /\ ret.v.a[r][1].n < ret.v.a[r][1].d

\* The class indices a call has drawn, with the vector each was drawn from.
Drawn ==
    IF fn = "fast_multi_choices" /\ pc = "done" THEN ret.v.a
    ELSE IF fn = "sample_M_K" /\ pc \in {"L93", "L98", "L99", "done"}
    THEN loc.choices_N_K_S.a
    ELSE <<>>
HasDrawn == Drawn # <<>>

\* C6: every index fast_multi_choices returns is one of 0 .. C-1, for every
\* draw and whether the vector sums to 1, falls short of it or exceeds it;
\* the result has one index per vector and draw.
C6_ChoicesAreValidIndices ==
    HasDrawn =>
        LET t == args.probs.a
        IN  /\ Len(Drawn) = t.N
            /\ \A n \in 1..t.N :
                  /\ Len(Drawn[n]) = t.K
                  /\ \A k \in 1..t.K :
                        /\ Len(Drawn[n][k]) = loc.S
                        /\ \A s \in 1..loc.S : Drawn[n][k][s] \in 0..(t.C - 1)

\* A vector whose sum falls short of 1 and a draw at or above that sum.
C6_Witness ==
    /\ fn = "fast_multi_choices" /\ pc = "done"
    /\ loc.S = 2
    /\ FLess(FSum(args.probs.a.a[1][1]), One)
    /\ FLeq(FSum(args.probs.a.a[1][1]), loc.r[2])
    /\ ret.v.a[1][1][2] = args.probs.a.C - 1

\* The vectors whose cumulative sums are exact with total 1.
ExactVector(v) == FSum(v) = One

\* C10 as stated: fast_multi_choices never returns a class of probability 0
\* when the sums are exact, (1, 0) always gives index 0, and sample_M_K takes
\* the logarithm of no zero probability.
C10_NoLogOfZero ==
    /\ HasDrawn =>
          \A n \in 1..args.probs.a.N : \A k \in 1..args.probs.a.K : \A s \in 1..loc.S :
              LET v == args.probs.a.a[n][k]
              IN  /\ ExactVector(v) => ~IsZero(v[Drawn[n][k][s] + 1])
                  /\ v = <<One, Zero>> => Drawn[n][k][s] = 0
    /\ (fn = "sample_M_K" /\ pc \in {"L98", "L99", "done"}) =>
          \A n \in 1..args.probs.a.N : \A k1 \in 1..args.probs.a.K :
              \A k2 \in 1..args.probs.a.K : \A s \in 1..loc.S :
                  ~IsZero(loc.probs_N_K_K_S.a[n][k1][k2][s])

\* C10, amended: fast_multi_choices never returns a class of probability 0
\* when the sums are exact, and (1, 0) always gives index 0; so sample_M_K
\* takes the logarithm of no zero probability at a class drawn from the same
\* pass (k1 = k2). At a class drawn from another pass it can.
C10_NoLogOfZeroWithinAPass ==
    /\ HasDrawn =>
          \A n \in 1..args.probs.a.N : \A k \in 1..args.probs.a.K : \A s \in 1..loc.S :
              LET v == args.probs.a.a[n][k]
              IN  /\ ExactVector(v) => ~IsZero(v[Drawn[n][k][s] + 1])
                  /\ v = <<One, Zero>> => Drawn[n][k][s] = 0
    /\ (fn = "sample_M_K" /\ pc \in {"L98", "L99", "done"}) =>
          \A n \in 1..args.probs.a.N : \A k \in 1..args.probs.a.K : \A s \in 1..loc.S :
              ExactVector(args.probs.a.a[n][k])
                  => ~IsZero(loc.probs_N_K_K_S.a[n][k][k][s])

\* sample_M_K has returned a table for two passes that are each certain of a
\* different class: the entries across the passes are 0.
C10_Witness ==
    /\ fn = "sample_M_K" /\ pc = "done"
    /\ args.probs.a.N = 1
    /\ args.probs.a.K = 2
    /\ args.probs.a.a[1][1] = <<One, Zero>>
    /\ args.probs.a.a[1][2] = <<Zero, One>>
    /\ ret.v.a[1] = <<One, Zero>>

\* ============================================================ chunking
\* The longest arrays split_arrays is given.
MaxLen == 5

\* The batch sizes around one and two chunks of chunk_size candidates.
BatchSizes ==
    {chunk_size - 1, chunk_size, chunk_size + 1, 2 * chunk_size, 2 * chunk_size + 1}
\* The candidates of a tensor repeated in order up to B candidates.
Cycle(t, B) ==
    [N |-> B, K |-> t.K, C |-> t.C,
     a |-> Seq1([b \in 1..B |-> t.a[((b - 1) % t.N) + 1]], B)]
\* Three candidates of one pass over two classes, no two alike.
Pools ==
    {u \in AllTensors :
        /\ u.N = 3 /\ u.K = 1 /\ u.C = 2
        /\ \A i \in 1..3 : \A j \in 1..3 : i # j => u.a[i] # u.a[j]}
LargeTensors == {Cycle(t, B) : t \in Pools, B \in BatchSizes}
\* The one-item tensors the caller may have folded before a large batch.
FoldedFirst == {u \in AllTensors : u.N = 1 /\ u.K = 1 /\ u.C = 2}

CallExactLarge ==
    \E t \in LargeTensors :
        /\ Enter("exact_batch", "L47", Arr("probs", t))
        /\ loc' = [prev_joint_probs_M_K |-> Passed]

CallBatchSampleLarge ==
    \E t \in LargeTensors :
        /\ acc # None
        /\ Enter("batch_sample", "L139", Arr("probs", t))
        /\ loc' = [samples_M_K |-> Passed]

\* ---------------------------------------------------------- split_arrays
CallSplit ==
    \E n1 \in 0..MaxLen : \E n2 \in 0..MaxLen : \E c \in 1..(MaxLen + 1) :
        /\ Idle
        /\ fn' = "split_arrays"
        /\ pc' = "L80"
        /\ args' = [arr1 |-> Arr("arr1", [j \in 1..n1 |-> j - 1]),
                    arr2 |-> Arr("arr2", [j \in 1..n2 |-> n2 - j])]
        /\ loc' = [chunk_size |-> c, arrays |-> <<>>, i |-> 0]
        /\ ret' = NoRet
        /\ allocs' = 0
        /\ written' = {}
        /\ UNCHANGED <<acc, chosen, rng>>

\* lines 80-81
SplitCheck ==
    /\ fn = "split_arrays" /\ pc = "L80"
    /\ IF Len(args.arr1.a) # Len(args.arr2.a)
       THEN Raise(AssertionError)
       ELSE /\ pc' = "L82"
            /\ allocs' = allocs + 1
            /\ UNCHANGED <<acc, chosen, fn, args, loc, ret, written, rng>>

\* lines 82-84: one chunk
SplitChunk ==
    /\ fn = "split_arrays" /\ pc = "L82"
    /\ loc.i < Len(args.arr1.a)
    /\ LET e == end_i(loc.i, loc.chunk_size)
       IN  loc' = [loc EXCEPT
                      !.arrays = Append(loc.arrays,
                                        <<Slice(args.arr1.a, loc.i, e),
                                          Slice(args.arr2.a, loc.i, e)>>),
                      !.i = loc.i + loc.chunk_size]
    /\ UNCHANGED <<acc, chosen, fn, pc, args, ret, allocs, written, rng>>

\* line 85
SplitReturn ==
    /\ fn = "split_arrays" /\ pc = "L82"
    /\ loc.i >= Len(args.arr1.a)
    /\ pc' = "done"
    /\ ret' = Value(Arr("new", loc.arrays))
    /\ UNCHANGED <<acc, chosen, fn, args, loc, allocs, written, rng>>

\* The caller has folded no item yet, or one.
InitChunk ==
    /\ \/ /\ acc = None
          /\ chosen = <<>>
       \/ \E t \in FoldedFirst :
              /\ acc = Arr("acc", joint_probs_M_K(t))
              /\ chosen = t.a
    /\ fn = "idle"
    /\ pc = "idle"
    /\ args = NoArgs
    /\ loc = NoLoc
    /\ ret = NoRet
    /\ allocs = 0
    /\ written = {}
    /\ rng = 0

NextChunk ==
    \/ CallSplit \/ SplitCheck \/ SplitChunk \/ SplitReturn
    \/ CallExactLarge \/ ExactCheck \/ JointProbs \/ ExactChunk \/ ExactReturn
    \/ CallBatchSampleLarge \/ SampleCheck \/ SampleProbs \/ SampleChunk \/ SampleReturn
    \/ Return

SpecChunk == InitChunk /\ [][NextChunk]_vars

\* ---------------------------------------------------- claims, chunking
\* The pieces of a list of slices, joined in order.
RECURSIVE Joined(_, _)
Joined(arrays, side) ==
    IF arrays = <<>> THEN <<>>
    ELSE Joined(SubSeq(arrays, 1, Len(arrays) - 1), side) \o arrays[Len(arrays)][side]

\* The scores of all candidates computed over the whole array at once.
WholeArray ==
    IF fn = "exact_batch"
    THEN entropy_from_probs_b_M_C(loc.joint_probs_B_M_C.a)
    ELSE importance_weighted_entropy_p_b_M_C(loc.p_B_M_C.a, loc.q_1_M_1.a,
                                             Rows(loc.samples_M_K.a))

\* C7: split_arrays returns the slices [0,c), [c,2c), ... of both arrays, in
\* order: joined they are the arrays, each slice but the last has c entries
\* and the last has 1 to c. In the chunk loops of exact_batch and
\* batch_sample every entry of entropy_B up to the loop's position has been
\* assigned exactly once and no other, and on return every entry has been
\* assigned once and equals the value computed over the whole array at once.
C7_ChunksCoverOnce ==
    /\ (fn = "split_arrays" /\ pc = "done") =>
          LET out == ret.v.a
              c == loc.chunk_size
          IN  /\ Joined(out, 1) = args.arr1.a
              /\ Joined(out, 2) = args.arr2.a
              /\ \A j \in 1..Len(out) :
                    /\ Len(out[j][1]) = Len(out[j][2])
                    /\ Len(out[j][1]) \in 1..c
                    /\ (j < Len(out) => Len(out[j][1]) = c)
    /\ (fn \in {"exact_batch", "batch_sample"} /\ pc \in {"L61", "L161", "done"}) =>
          /\ \A b \in 1..args.probs.a.N :
                loc.assigned[b] = IF b <= loc.i THEN 1 ELSE 0
          /\ pc = "done" =>
                /\ Len(ret.v.a) = args.probs.a.N
                /\ ret.v.a = WholeArray
                /\ \A b \in 1..args.probs.a.N : loc.assigned[b] = 1

\* batch_sample has scored two full chunks and one more candidate, the
\* candidates on the two sides of a chunk's end scoring differently.
C7_Witness ==
    /\ fn = "batch_sample" /\ pc = "done"
    /\ args.probs.a.N = 2 * chunk_size + 1
    /\ loc.i > args.probs.a.N
    /\ ret.v.a[chunk_size] # ret.v.a[chunk_size + 1]
    /\ ret.v.a[1].k = "fin"

\* ============================================================= metrics
\* The longest label lists purity is given, and the largest label.
MaxItems == 2
MaxLabel == 2

\* sum([...]) of a list of booleans
CountTrue(flags) == Cardinality({i \in 1..Len(flags) : flags[i]})

Labels == 0..MaxLabel
LabelLists == UNION {[1..n -> Labels] : n \in 0..MaxItems}

CallPurity ==
    \E label_pred \in LabelLists : \E label_true \in LabelLists : \E ia_flag \in Labels :
        /\ Len(label_pred) = Len(label_true)
        /\ Idle
        /\ fn' = "purity"
        /\ pc' = "L70"
        /\ args' = [label_pred |-> label_pred, label_true |-> label_true,
                    ia_flag |-> ia_flag]
        /\ loc' = NoLoc
        /\ ret' = NoRet
        /\ allocs' = 0
        /\ written' = {}
        /\ UNCHANGED <<acc, chosen, rng>>

\* metrics.py, lines 70-71
PurityCount ==
    /\ fn = "purity" /\ pc = "L70"
    /\ LET n == Len(args.label_pred)
       IN  loc' = [cc_ia |-> CountTrue([i \in 1..n |->
                                 /\ args.label_pred[i] = args.label_true[i]
                                 /\ args.label_true[i] = args.ia_flag]),
                   wr_nia |-> CountTrue([i \in 1..n |->
                                 /\ args.label_pred[i] # args.label_true[i]
                                 /\ args.label_true[i] # args.ia_flag])]
    /\ pc' = "L73"
    /\ UNCHANGED <<acc, chosen, fn, args, ret, allocs, written, rng>>

\* metrics.py, lines 73-76
PurityReturn ==
    /\ fn = "purity" /\ pc = "L73"
    /\ ret' = IF loc.cc_ia + loc.wr_nia > 0
              THEN Value(Arr("new", FDiv(Fin(loc.cc_ia, 1), Fin(loc.cc_ia + loc.wr_nia, 1))))
              ELSE Value(Arr("new", Zero))
    /\ pc' = "done"
    /\ UNCHANGED <<acc, chosen, fn, args, loc, allocs, written, rng>>

NextMetrics == CallPurity \/ PurityCount \/ PurityReturn \/ Return

SpecMetrics == Init /\ [][NextMetrics]_vars

\* ----------------------------------------------------- claims, metrics
\* The items classified as Ia, and those of them that are Ia.
ClassifiedIa == {i \in 1..Len(args.label_pred) : args.label_pred[i] = args.ia_flag}
TrueIaAmongThem == {i \in ClassifiedIa : args.label_true[i] = args.ia_flag}

\* C9: purity returns the number of items with label_pred = label_true =
\* ia_flag divided by the number of items with label_pred = ia_flag, for
\* label lists over any set of labels, and 0 when no item is classified as Ia.
C9_PurityIsFractionOfClassifiedIa ==
    (fn = "purity" /\ pc = "done") =>
        ret.v.a = IF ClassifiedIa = {} THEN Zero
                  ELSE Fin(Cardinality(TrueIaAmongThem), Cardinality(ClassifiedIa))
====
